---------------------------- MODULE Spec2Model ----------------------------
(***************************************************************************)
(* Model of haicor/process/extractor.py: TrieConceptExtractor.             *)
(*                                                                         *)
(* to_trie is a pure function (sorted + recursive groupby); extract is a   *)
(* generator whose frame (matches, updates, index, token, the position of  *)
(* the inner for loop) is the state of the machine.  Tokens are strings in *)
(* the source; here they are small integers ordered as the strings are.    *)
(* A concept is a Python sequence: it carries its type (tuple or list),    *)
(* because `[] in entries` compares a list with the entries and a list is  *)
(* never equal to a tuple.                                                 *)
(***************************************************************************)
EXTENDS Integers, Sequences, FiniteSets, TLC

\* ------------------------------------------------------------- bounds
MaxConceptLen == 2
MaxDict == 2
MaxTrieDict == 3
MaxSmallDict == 1
MaxLen == 3
MaxPairLen == 2

\* the token alphabet: two strings, 1 < 2 as "a" < "b"
Tokens == {1, 2}
BoundedSeq(S, n) == UNION {[1..k -> S] : k \in 0..n}
Range(s) == {s[i] : i \in DOMAIN s}

\* ------------------------------------------------- Python sequences
Types == {"tuple", "list"}
Concept(ty, s) == [type |-> ty, items |-> s]
EmptyList == Concept("list", <<>>)
ConceptsOf(ty) == {Concept(ty, s) : s \in BoundedSeq(Tokens, MaxConceptLen)}

\* i[1:]: slicing keeps the type of the sequence
Slice1(i) == Concept(i.type, Tail(i.items))
\* `if i`: an empty tuple or list is falsy
Truthy(i) == i.items # <<>>
\* key=lambda x: x[0]
Key(i) == i.items[1]

\* a < b on two sequences of the same type: lexicographic
RECURSIVE SeqLess(_, _)
SeqLess(a, b) ==
    IF b = <<>> THEN FALSE
    ELSE IF a = <<>> THEN TRUE
    ELSE IF a[1] # b[1] THEN a[1] < b[1]
    ELSE SeqLess(Tail(a), Tail(b))

RECURSIVE Insert(_, _)
Insert(x, s) ==
    IF s = <<>> THEN <<x>>
    ELSE IF SeqLess(x.items, s[1].items) THEN <<x>> \o s
    ELSE <<s[1]>> \o Insert(x, Tail(s))

RECURSIVE SortedAsc(_)
SortedAsc(s) ==
    IF s = <<>> THEN <<>> ELSE Insert(s[Len(s)], SortedAsc(SubSeq(s, 1, Len(s) - 1)))

Unsorted(s) == s
\* sorted(dictionary)
Sorted(s) == SortedAsc(s)

\* length of the run of entries at the front of es that share es[1]'s key
RunLen(es) ==
    CHOOSE n \in 1..Len(es) :
        /\ \A k \in 1..n : Key(es[k]) = Key(es[1])
        /\ n = Len(es) \/ Key(es[n + 1]) # Key(es[1])

\* itertools.groupby(entries, key): one group per maximal run of equal keys
RECURSIVE GroupBy(_)
GroupBy(es) ==
    IF es = <<>> THEN <<>>
    ELSE LET n == RunLen(es)
         IN  <<[head |-> Key(es[1]), tails |-> SubSeq(es, 1, n)]>>
                 \o GroupBy(SubSeq(es, n + 1, Len(es)))

\* a dict comprehension keeps, for a key met twice, the later value
LastGroup(groups, h) ==
    groups[CHOOSE i \in DOMAIN groups :
              /\ groups[i].head = h
              /\ \A j \in DOMAIN groups : groups[j].head = h => j <= i]

EndsHereAlways(entries) == entries # <<>>
\* `[] in entries`
EndsHere(entries) == EmptyList \in Range(entries)

\* build_trie(entries) -> (match, {head: build_trie(tails)})
RECURSIVE build_trie(_)
build_trie(entries) ==
    LET match == EndsHere(entries)
        rest == SelectSeq(entries, Truthy)
        groups == GroupBy(rest)
        heads == {groups[i].head : i \in DOMAIN groups}
    IN  <<match,
          [head \in heads |->
              LET tails == LastGroup(groups, head).tails
              IN  build_trie([k \in DOMAIN tails |-> Slice1(tails[k])])]>>

to_trie_rooted(input) == build_trie(Sorted(input))
\* to_trie(dictionary): the children of the root; the root's flag is dropped
to_trie(input) == build_trie(Sorted(input))[2]

\* ------------------------------------------------------------- state
VARIABLES
    concepts,    \* the constructor's argument, a sequence of concepts
    dictionary,  \* self.dictionary
    pc,          \* per generator: "start", "for", "inner", "yield", "done"
    length,      \* per generator: the length of its (finite) token stream
    seen,        \* per generator: the tokens taken from its stream so far
    count,       \* per generator: enumerate's counter
    index,       \* per generator: loop variable index
    token,       \* per generator: loop variable token
    matches,     \* per frame: local matches
    updates,     \* per frame: local updates
    pos,         \* per generator: position of the iterator over matches
    out          \* per generator: the pairs yielded so far

vars == <<concepts, dictionary, pc, length, seen, count, index, token,
          matches, updates, pos, out>>

Gens == DOMAIN pc

SharedFrame(g) == 1
\* the frame holding the locals of generator g: one per call of extract
Frame(g) == g

EnumStartOne == 0 + 1
\* enumerate(tokens) counts from 0
EnumStart == 0

\* ------------------------------------------------ steps of extract
\* ((index, []), self.dictionary)
Fresh(trie, i) == [start |-> i, match |-> <<>>, pointer |-> trie]

SeedFirst(ms, i) == <<Fresh(dictionary, i)>> \o ms
\* matches.append(((index, []), self.dictionary))
Seed(ms, i) == Append(ms, Fresh(dictionary, i))

\* token in pointer
Hit(m, t) == t \in DOMAIN m.pointer
\* matched, pointer = pointer.get(token)
Matched(m, t) == m.pointer[t][1]
Child(m, t) == m.pointer[t][2]

EmittedBare(m, t) == m.match
\* match + [token]
Emitted(m, t) == Append(m.match, t)

ExtendStale(m, t) == [start |-> m.start, match |-> Append(m.match, t), pointer |-> m.pointer]
\* ((start, match + [token]), pointer)
Extend(m, t) == [start |-> m.start, match |-> Append(m.match, t), pointer |-> Child(m, t)]

\* (start, match + [token]) as handed to the consumer
Pair(m, t) == [start |-> m.start, tokens |-> Emitted(m, t)]

ExhaustedNever(g) == Len(seen[g]) > length[g]
\* the token iterator raises StopIteration
Exhausted(g) == Len(seen[g]) = length[g]

\* the trie d without the child t of the node reached along the path p
RECURSIVE RemoveAt(_, _, _)
RemoveAt(d, p, t) ==
    IF p = <<>> THEN [k \in DOMAIN d \ {t} |-> d[k]]
    ELSE [k \in DOMAIN d |->
             IF k = p[1] THEN <<d[k][1], RemoveAt(d[k][2], Tail(p), t)>> ELSE d[k]]

AfterPop(d, p, t) == RemoveAt(d, p, t)
\* the trie after pointer.get(token), pointer being the node reached along p:
\* get only reads the dict
AfterGet(d, p, t) == d

CarriedAll(ms, us) == ms \o us
\* matches, updates = updates, []: the old matches are let go
Carried(ms, us) == us

Cur(g) == matches[Frame(g)][pos[g]]
InLoop(g) == pc[g] = "inner" /\ pos[g] <= Len(matches[Frame(g)])

\* line 31: the first next() runs the body from its top
Begin(g) ==
    /\ pc[g] = "start"
    /\ matches' = [matches EXCEPT ![Frame(g)] = <<>>]
    /\ updates' = [updates EXCEPT ![Frame(g)] = <<>>]
    /\ pc' = [pc EXCEPT ![g] = "for"]
    /\ UNCHANGED <<concepts, dictionary, length, seen, count, index, token, pos, out>>

\* lines 33-34: the for loop takes the next token and seeds a match
ForNext(g, t) ==
    /\ pc[g] = "for"
    /\ Len(seen[g]) < length[g]
    /\ seen' = [seen EXCEPT ![g] = Append(@, t)]
    /\ index' = [index EXCEPT ![g] = count[g]]
    /\ count' = [count EXCEPT ![g] = @ + 1]
    /\ token' = [token EXCEPT ![g] = t]
    /\ matches' = [matches EXCEPT ![Frame(g)] = Seed(@, count[g])]
    /\ pos' = [pos EXCEPT ![g] = 1]
    /\ pc' = [pc EXCEPT ![g] = "inner"]
    /\ UNCHANGED <<concepts, dictionary, length, updates, out>>

\* line 33: the stream is exhausted, the generator returns
ForEnd(g) ==
    /\ pc[g] = "for"
    /\ Exhausted(g)
    /\ pc' = [pc EXCEPT ![g] = "done"]
    /\ UNCHANGED <<concepts, dictionary, length, seen, count, index, token,
                   matches, updates, pos, out>>

\* lines 37-38: the token is no child of the match's node
Skip(g) ==
    /\ InLoop(g)
    /\ ~Hit(Cur(g), token[g])
    /\ pos' = [pos EXCEPT ![g] = @ + 1]
    /\ UNCHANGED <<concepts, dictionary, pc, length, seen, count, index, token,
                   matches, updates, out>>

\* lines 40-45 when the child does not end a concept
Advance(g) ==
    /\ InLoop(g)
    /\ Hit(Cur(g), token[g])
    /\ ~Matched(Cur(g), token[g])
    /\ dictionary' = AfterGet(dictionary, Cur(g).match, token[g])
    /\ updates' = [updates EXCEPT ![Frame(g)] = Append(@, Extend(Cur(g), token[g]))]
    /\ pos' = [pos EXCEPT ![g] = @ + 1]
    /\ UNCHANGED <<concepts, pc, length, seen, count, index, token, matches, out>>

\* lines 40-43: the child ends a concept; the generator suspends at yield
Yield(g) ==
    /\ InLoop(g)
    /\ Hit(Cur(g), token[g])
    /\ Matched(Cur(g), token[g])
    /\ dictionary' = AfterGet(dictionary, Cur(g).match, token[g])
    /\ out' = [out EXCEPT ![g] = Append(@, Pair(Cur(g), token[g]))]
    /\ pc' = [pc EXCEPT ![g] = "yield"]
    /\ UNCHANGED <<concepts, length, seen, count, index, token, matches, updates, pos>>

\* line 45 after the consumer resumes the generator
Resume(g) ==
    /\ pc[g] = "yield"
    /\ updates' = [updates EXCEPT ![Frame(g)] = Append(@, Extend(Cur(g), token[g]))]
    /\ pos' = [pos EXCEPT ![g] = @ + 1]
    /\ pc' = [pc EXCEPT ![g] = "inner"]
    /\ UNCHANGED <<concepts, dictionary, length, seen, count, index, token,
                   matches, out>>

\* line 47: matches, updates = updates, []
Swap(g) ==
    /\ pc[g] = "inner"
    /\ pos[g] > Len(matches[Frame(g)])
    /\ matches' = [matches EXCEPT ![Frame(g)] = Carried(@, updates[Frame(g)])]
    /\ updates' = [updates EXCEPT ![Frame(g)] = <<>>]
    /\ pc' = [pc EXCEPT ![g] = "for"]
    /\ UNCHANGED <<concepts, dictionary, length, seen, count, index, token, pos, out>>

\* ------------------------------------------------------ specifications
Inputs(n) == UNION {BoundedSeq(ConceptsOf(ty), n) : ty \in Types}

\* the extractor is constructed from `input`; n generators are created
InitWith(input, n, maxlen) ==
    /\ concepts = input
    /\ dictionary = to_trie(input)
    /\ pc = [g \in 1..n |-> "start"]
    /\ length \in [1..n -> 0..maxlen]
    /\ seen = [g \in 1..n |-> <<>>]
    /\ count = [g \in 1..n |-> EnumStart]
    /\ index = [g \in 1..n |-> 0]
    /\ token = [g \in 1..n |-> 0]
    /\ matches = [g \in 1..n |-> <<>>]
    /\ updates = [g \in 1..n |-> <<>>]
    /\ pos = [g \in 1..n |-> 1]
    /\ out = [g \in 1..n |-> <<>>]

Init == \E input \in Inputs(MaxDict) : InitWith(input, 1, MaxLen)

Next ==
    \/ \E g \in Gens : Begin(g)
    \/ \E g \in Gens, t \in Tokens : ForNext(g, t)
    \/ \E g \in Gens : ForEnd(g)
    \/ \E g \in Gens : Skip(g)
    \/ \E g \in Gens : Advance(g)
    \/ \E g \in Gens : Yield(g)
    \/ \E g \in Gens : Resume(g)
    \/ \E g \in Gens : Swap(g)

Spec == Init /\ [][Next]_vars

IsStrictlySorted(s) == \A k \in 1..(Len(s) - 1) : SeqLess(s[k].items, s[k + 1].items)

\* two generators of one extractor, advanced in any interleaving; the
\* extractor's input lists each concept once, in order
InitPair ==
    \E input \in Inputs(MaxSmallDict) :
        /\ IsStrictlySorted(input)
        /\ InitWith(input, 2, MaxPairLen)
SpecPair == InitPair /\ [][Next]_vars

\* a consumer that keeps pulling: some step is taken whenever one is possible
InitLive == \E input \in Inputs(MaxSmallDict) : InitWith(input, 1, MaxLen)
SpecLive == InitLive /\ [][Next]_vars /\ WF_vars(Next)

\* ------------------------------------------------------- construction
\* __init__: self.dictionary = self.to_trie(dictionary)
Construct(input) ==
    /\ concepts' = input
    /\ dictionary' = to_trie(input)
    /\ UNCHANGED <<pc, length, seen, count, index, token, matches, updates, pos, out>>

SwapAt(s, i) ==
    [k \in DOMAIN s |-> IF k = i THEN s[i + 1] ELSE IF k = i + 1 THEN s[i] ELSE s[k]]
DropAt(s, i) == SubSeq(s, 1, i - 1) \o SubSeq(s, i + 1, Len(s))

\* a new extractor from the same entries in another order
Reorder(i) ==
    /\ i < Len(concepts)
    /\ concepts[i] # concepts[i + 1]
    /\ Construct(SwapAt(concepts, i))

\* a new extractor from the same entries, one of them given once more
Repeat(i) ==
    /\ Len(concepts) < MaxTrieDict
    /\ Construct(Append(concepts, concepts[i]))

\* a new extractor from the same entries, one repetition removed
Dedupe(i) ==
    /\ \E j \in DOMAIN concepts : j # i /\ concepts[j] = concepts[i]
    /\ Construct(DropAt(concepts, i))

\* construction alone: no generator exists; the first input lists each
\* concept once, in order, and the later ones permute and repeat its entries
InitTrie ==
    \E input \in Inputs(MaxTrieDict) :
        /\ IsStrictlySorted(input)
        /\ InitWith(input, 0, 0)

NextTrie ==
    \/ \E i \in DOMAIN concepts : Reorder(i)
    \/ \E i \in DOMAIN concepts : Repeat(i)
    \/ \E i \in DOMAIN concepts : Dedupe(i)

SpecTrie == InitTrie /\ [][NextTrie]_vars

\* ------------------------------------------- extract as a pure function
\* the inner for loop over ms from position k on, for token t:
\* the matches kept for the next token and the pairs yielded, in order
RECURSIVE Inner(_, _, _)
Inner(ms, t, k) ==
    IF k > Len(ms) THEN [updates |-> <<>>, out |-> <<>>]
    ELSE LET m == ms[k]
             r == Inner(ms, t, k + 1)
         IN  IF ~Hit(m, t) THEN r
             ELSE [updates |-> <<Extend(m, t)>> \o r.updates,
                   out |-> (IF Matched(m, t) THEN <<Pair(m, t)>> ELSE <<>>) \o r.out]

\* the outer for loop from token number i (1-based) on, with matches ms
RECURSIVE Outer(_, _, _, _)
Outer(trie, S, i, ms) ==
    IF i > Len(S) THEN <<>>
    ELSE LET r == Inner(Append(ms, Fresh(trie, EnumStart + i - 1)), S[i], 1)
         IN  r.out \o Outer(trie, S, i + 1, r.updates)

\* list(extract(S)) for one generator run alone over the trie
ExtractAll(trie, S) == Outer(trie, S, 1, <<>>)

\* ---------------------------------------------------- claim vocabulary
\* the concepts of D as token sequences
ConceptSet == {concepts[i].items : i \in DOMAIN concepts}
TupleDictionary == \A i \in DOMAIN concepts : concepts[i].type = "tuple"
ListDictionary == \A i \in DOMAIN concepts : concepts[i].type = "list"

\* S[i : i + len(C)] == C, i counted from 0
Occurs(S, i, C) == i + Len(C) <= Len(S) /\ SubSeq(S, i + 1, i + Len(C)) = C
\* the index of the token that completes a yielded pair
Completion(p) == p.start + Len(p.tokens) - 1
\* the generator is between two tokens, or has returned
Settled(g) == pc[g] \in {"for", "done"}
Times(g, p) == Cardinality({k \in DOMAIN out[g] : out[g][k] = p})
IsPrefix(a, b) == Len(a) <= Len(b) /\ SubSeq(b, 1, Len(a)) = a
IsProperPrefix(a, b) == Len(a) < Len(b) /\ SubSeq(b, 1, Len(a)) = a
Paths == BoundedSeq(Tokens, MaxConceptLen + 1) \ {<<>>}

\* the path p exists in the trie d (a dict of children)
RECURSIVE HasPath(_, _)
HasPath(d, p) ==
    p = <<>> \/ (p[1] \in DOMAIN d /\ HasPath(d[p[1]][2], Tail(p)))
\* the boolean stored with the node reached by the non-empty path p
RECURSIVE FlagAt(_, _)
FlagAt(d, p) == IF Len(p) = 1 THEN d[p[1]][1] ELSE FlagAt(d[p[1]][2], Tail(p))

\* ------------------------------------------------------------- claims

\* C1: soundness of extract.  Every pair (start, tokens) yielded so far is a
\* concept of D and stands in the stream at start: S[start : start+len(tokens)]
\* == tokens; when no concept of D occurs in the tokens taken, nothing has
\* been yielded.
C1_Sound ==
    \A g \in Gens :
        /\ \A k \in DOMAIN out[g] :
              /\ out[g][k].tokens \in ConceptSet
              /\ out[g][k].start >= 0
              /\ Occurs(seen[g], out[g][k].start, out[g][k].tokens)
        /\ (\A C \in ConceptSet, i \in 0..Len(seen[g]) : ~Occurs(seen[g], i, C))
              => out[g] = <<>>

\* a finished run that yielded at least two pairs
C1_Witness == \E g \in Gens : pc[g] = "done" /\ Len(out[g]) >= 2

\* C2: completeness of extract for a dictionary of tuples of strings.  Once
\* the tokens taken so far are fully processed, every occurrence (i, C) of a
\* non-empty concept C has been yielded exactly once.
C2_CompleteForTuples ==
    \A g \in Gens :
        (Settled(g) /\ TupleDictionary) =>
            \A C \in ConceptSet \ {<<>>}, i \in 0..Len(seen[g]) :
                Occurs(seen[g], i, C) => Times(g, [start |-> i, tokens |-> C]) = 1

\* C3: emission order.  Along the yielded sequence the completion index never
\* decreases, and two consecutive pairs with the same completion index have
\* strictly ascending start indices.
C3_Ordered ==
    \A g \in Gens : \A k \in 1..(Len(out[g]) - 1) :
        LET a == out[g][k]
            b == out[g][k + 1]
        IN  /\ Completion(a) <= Completion(b)
            /\ Completion(a) = Completion(b) => a.start < b.start

\* two pairs were yielded for the same completing token
C3_Witness ==
    \E g \in Gens : \E k \in 1..(Len(out[g]) - 1) :
        Completion(out[g][k]) = Completion(out[g][k + 1])

\* C4: nested matches.  For concepts P and C of D, P a proper non-empty
\* prefix of C, and C standing in the stream at i, both (i, P) and (i, C) have
\* been yielded once the tokens taken are processed, (i, P) first.
C4_NestedBothYielded ==
    \A g \in Gens :
        Settled(g) =>
            \A P \in ConceptSet \ {<<>>}, C \in ConceptSet, i \in 0..Len(seen[g]) :
                (IsProperPrefix(P, C) /\ Occurs(seen[g], i, C)) =>
                    \E kp \in DOMAIN out[g], kc \in DOMAIN out[g] :
                        /\ kp < kc
                        /\ out[g][kp] = [start |-> i, tokens |-> P]
                        /\ out[g][kc] = [start |-> i, tokens |-> C]

\* C5: end-of-concept flags of the trie built from a dictionary of tuples.
\* For every non-empty path that exists in the trie, the boolean stored with
\* the node it reaches is true iff the path is a concept of D.
C5_FlagsForTuples ==
    TupleDictionary =>
        \A p \in Paths :
            HasPath(dictionary, p) => (FlagAt(dictionary, p) <=> p \in ConceptSet)

\* C6: construction is insensitive to order and repetition.  Constructing
\* again from an input with the same set of concepts gives an equal trie, and
\* extract yields the same sequence over every token stream.
C6_SameSetSameTrie ==
    [][Range(concepts') = Range(concepts) =>
          /\ dictionary' = dictionary
          /\ \A S \in BoundedSeq(Tokens, MaxPairLen) :
                ExtractAll(dictionary', S) = ExtractAll(dictionary, S)]_vars

\* an extractor constructed from an input that repeats an entry and is out
\* of order, with a trie that is not empty
C6_Witness ==
    /\ \E i \in DOMAIN concepts, j \in DOMAIN concepts : i < j /\ concepts[i] = concepts[j]
    /\ \E k \in 1..(Len(concepts) - 1) : SeqLess(concepts[k + 1].items, concepts[k].items)
    /\ DOMAIN dictionary # {}

\* C7: no zero-length emission.  Whatever D holds, the empty concept
\* included, no yielded pair has an empty token sequence.
C7_NoEmptyMatch ==
    \A g \in Gens : \A k \in DOMAIN out[g] : Len(out[g][k].tokens) >= 1

\* D holds the empty concept as a list (the one `[] in entries` finds), tokens
\* were processed to the end and pairs were yielded
C7_Witness ==
    /\ EmptyList \in Range(concepts)
    /\ \E g \in Gens : pc[g] = "done" /\ seen[g] # <<>> /\ out[g] # <<>>

\* C8: no look-ahead, immediate emission.  Every yielded pair completes at a
\* token already taken, and while the generator is suspended at a yield the
\* pair just handed over completes at index i with exactly i + 1 tokens taken.
C8_Immediate ==
    \A g \in Gens :
        /\ \A k \in DOMAIN out[g] : Completion(out[g][k]) + 1 <= Len(seen[g])
        /\ pc[g] = "yield" => Completion(out[g][Len(out[g])]) + 1 = Len(seen[g])

\* suspended at a yield after the second token or later, with tokens left
C8_Witness ==
    \E g \in Gens : pc[g] = "yield" /\ Len(seen[g]) >= 2 /\ Len(seen[g]) < length[g]

\* C9: independent invocations.  Whatever the interleaving, what a generator
\* has yielded is a prefix of what it yields alone over the tokens it took,
\* and all of it once those tokens are processed; a generator that has taken
\* no token holds no active match.
C9_Independent ==
    \A g \in Gens :
        LET alone == ExtractAll(dictionary, seen[g])
        IN
        /\ IsPrefix(out[g], alone)
        /\ Settled(g) => out[g] = alone
        /\ (pc[g] = "for" /\ seen[g] = <<>>) => matches[Frame(g)] = <<>>

\* generator 1 is suspended at a yield and generator 2 is inside its inner
\* loop, both past their first token, over different streams
C9_Witness ==
    /\ Gens = {1, 2}
    /\ seen[1] # seen[2]
    /\ pc[1] = "yield" /\ pc[2] \in {"inner", "yield"}
    /\ \A g \in Gens : Len(seen[g]) >= 2

\* C10: termination on finite input.  A consumer that keeps pulling reaches
\* the end of the generator, with exactly N tokens taken.
C10_Terminates ==
    <>(\A g \in Gens : pc[g] = "done" /\ Len(seen[g]) = length[g])

\* a run over a stream of the greatest length that ended after yielding
C10_Witness ==
    \E g \in Gens : pc[g] = "done" /\ length[g] = MaxLen /\ Len(out[g]) >= 1

\* the input without its empty entries
WithoutEmpty(s) == SelectSeq(s, Truthy)
HasEmptyConcept == \E i \in DOMAIN concepts : concepts[i].items = <<>>

\* C11 (as claimed): the trie records at its root whether the empty sequence
\* is a concept of D, so the trie of a dictionary that holds the empty
\* concept differs from the trie of the same dictionary without it.
C11_RootFlagRecorded ==
    HasEmptyConcept => dictionary # to_trie(WithoutEmpty(concepts))

\* C11 (amended): to_trie returns the children of the root and drops the
\* root's flag, so the trie is the one built from the non-empty concepts
\* alone: the empty concept leaves no trace in it.
C11_RootFlagDropped == dictionary = to_trie(WithoutEmpty(concepts))

\* an extractor built from the empty concept (as a list) and other concepts
C11_Witness ==
    /\ EmptyList \in Range(concepts)
    /\ Len(concepts) >= 2
    /\ DOMAIN dictionary # {}

\* the dict of children reached from the dict d by following the path p
RECURSIVE ChildrenAt(_, _)
ChildrenAt(d, p) == IF p = <<>> THEN d ELSE ChildrenAt(d[p[1]][2], Tail(p))

\* the next tokens of the concepts that extend the path q
NextTokens(q) == {C[Len(q) + 1] : C \in {X \in ConceptSet : IsProperPrefix(q, X)}}

\* C12: trie shape.  A non-empty path exists in the trie iff it is a prefix
\* of some concept of D, and the children of every node (the root included)
\* are exactly the distinct next tokens of the concepts extending its path.
C12_TrieShape ==
    /\ \A p \in Paths :
          HasPath(dictionary, p) <=> \E C \in ConceptSet : IsPrefix(p, C)
    /\ \A q \in Paths \cup {<<>>} :
          HasPath(dictionary, q) => DOMAIN ChildrenAt(dictionary, q) = NextTokens(q)

\* an extractor built from three distinct non-empty concepts given out of
\* order: the first and the third share their first token, the second does not
C12_Witness ==
    /\ Len(concepts) = 3
    /\ \A i \in DOMAIN concepts : Truthy(concepts[i])
    /\ concepts[1] # concepts[3]
    /\ Key(concepts[1]) = Key(concepts[3])
    /\ Key(concepts[1]) # Key(concepts[2])

\* the start indices of the matches in ms
Starts(ms) == {ms[j].start : j \in DOMAIN ms}
\* S[s : k + 1] where k + 1 tokens have been taken
Since(S, s) == SubSeq(S, s + 1, Len(S))

\* C13: active-match invariant.  Once the token at index k is processed, the
\* carried-over matches have strictly ascending (so distinct) start indices;
\* each match (start, matched, node) has matched == S[start : k+1] and node
\* the trie node reached from the root along matched; and the starts kept are
\* exactly those whose tokens since the start are a path of the trie, so a
\* match whose next token was no child of its node is gone and stays gone.
C13_ActiveMatches ==
    \A g \in Gens :
        Settled(g) =>
            LET ms == matches[Frame(g)]
                S == seen[g]
            IN  /\ \A j \in 1..(Len(ms) - 1) : ms[j].start < ms[j + 1].start
                /\ \A j \in DOMAIN ms :
                      /\ ms[j].start \in 0..(Len(S) - 1)
                      /\ ms[j].match = Since(S, ms[j].start)
                      /\ HasPath(dictionary, ms[j].match)
                      /\ ms[j].pointer = ChildrenAt(dictionary, ms[j].match)
                /\ Starts(ms) = {s \in 0..(Len(S) - 1) : HasPath(dictionary, Since(S, s))}

\* between two tokens, with two matches carried over and an earlier start
\* already dropped
C13_Witness ==
    \E g \in Gens :
        /\ pc[g] = "for"
        /\ Len(matches[Frame(g)]) >= 2
        /\ \E s \in 0..(Len(seen[g]) - 1) : s \notin Starts(matches[Frame(g)])

MaxOf(S) == IF S = {} THEN 0 ELSE CHOOSE x \in S : \A y \in S : y <= x
\* L, the maximum concept length in the dictionary
MaxConcept == MaxOf({Len(C) : C \in ConceptSet})

\* C14 (as claimed): at every point of a scan at most L active matches are
\* held, and none holds more than L tokens (read for a dictionary that has
\* a non-empty concept, so that L >= 1).
C14_AtMostL ==
    \A g \in Gens :
        MaxConcept >= 1 =>
        /\ Len(matches[Frame(g)]) <= MaxConcept
        /\ \A j \in DOMAIN matches[Frame(g)] : Len(matches[Frame(g)][j].match) <= MaxConcept

\* C14 (amended): at most L matches are carried from one token to the next
\* (in matches once a token is processed, and in updates at any time); while
\* a token is being processed matches also holds the match seeded for it, so
\* it holds at most L + 1; no match holds more than L tokens.
C14_AtMostLPlusOne ==
    \A g \in Gens :
        /\ Len(matches[Frame(g)]) <= MaxConcept + 1
        /\ Settled(g) => Len(matches[Frame(g)]) <= MaxConcept
        /\ Len(updates[Frame(g)]) <= MaxConcept
        /\ \A j \in DOMAIN matches[Frame(g)] : Len(matches[Frame(g)][j].match) <= MaxConcept
        /\ \A j \in DOMAIN updates[Frame(g)] : Len(updates[Frame(g)][j].match) <= MaxConcept

\* a token is being processed with L matches carried over and the new seed,
\* for a dictionary whose longest concept has two tokens or more
C14_Witness ==
    \E g \in Gens :
        /\ pc[g] = "inner"
        /\ MaxConcept >= 2
        /\ Len(matches[Frame(g)]) = MaxConcept + 1

\* C15: the trie is unchanged by extraction.  Whatever steps the generators
\* have taken (seeding, advancing, discarding, yielding, swapping), and
\* whether they ran to the end or were left suspended, self.dictionary is the
\* trie produced at construction.
C15_TrieUnchanged == dictionary = to_trie(concepts)

\* one call of extract ran to its end after yielding, the other was left
\* suspended at a yield
C15_Witness ==
    /\ Gens = {1, 2}
    /\ pc[1] = "done" /\ out[1] # <<>>
    /\ pc[2] = "yield"

=============================================================================
